---- MODULE Spec2Model ----
(***************************************************************************)
(* Model of the dragon HTTP router: the route builder (HttpRouting), the   *)
(* process-wide registry (RegistredRoutes, RouteOptions, the global        *)
(* middleware list), the middleware resolver (MiddlewareResolver) and the  *)
(* dispatcher (Application.handleHttpRequest).                             *)
(*                                                                         *)
(* Strings that the code inspects character by character (request paths,   *)
(* literal patterns) are sequences of one-character strings.  Functions    *)
(* handed to the router (middleware, handlers) are named by the place of   *)
(* the call that registered them.  An asynchronous chain is a record that  *)
(* holds its position; one action is one resumption of one chain.          *)
(***************************************************************************)
EXTENDS Integers, Sequences, FiniteSets, TLC

VARIABLES
  heap,              \* the HttpRouting objects created so far
  RegistredRoutes,   \* the registry: references (heap indices), in order
  RouteOptions,      \* the process-wide routing options
  globalMiddleware,  \* HttpRouting._globalMiddleware
  serving,           \* listenAndServe has started the server
  lastError,         \* message of the HttpError thrown by the last call
  reqs,              \* the requests handed to handleHttpRequest
  probe              \* inputs and results of the pure-function harnesses

vars == <<heap, RegistredRoutes, RouteOptions, globalMiddleware, serving,
          lastError, reqs, probe>>

----------------------------------------------------------------------------
(* Bounds *)

MaxFns == 3          \* middleware functions registered (one-route application)
MaxGroups == 2       \* middleware groups per route
MaxGroupLen == 2     \* middleware per group
MaxEntries == 2      \* entries pushed to the registry
MaxAppFns == 1       \* middleware functions registered (several routes)
MaxPathLen == 3      \* length of a probed request path
MaxPatternLen == 2   \* length of a probed literal pattern
MaxMethods == 4      \* length of the method list in the method harness
MaxRequests == 2     \* requests handled by the application with a regex route
MaxObjects == 2      \* route objects created (registry specification)
MaxLegacyRoutes == 3 \* route objects created (earlier builder)

----------------------------------------------------------------------------
(* Values *)

\* an optional value: Undefined, or Some(v)
Undefined == <<>>
Some(v) == <<v>>
NoError == "none"

\* RequestMethod (the verbs the model uses)
GET == "GET"
HEAD == "HEAD"
POST == "POST"
PUT == "PUT"

\* MiddlewareState.Next, MiddlewareState.Cancel, and any other return value
StateNext == "Next"
StateCancel == "Cancel"
StateOther == "Other"
Outcomes == {StateNext, StateCancel, StateOther}

\* line terminator: a character the regular expression dot does not match
NL == "\n"

Str(s) == [kind |-> "string", value |-> s]

\* the handler installed by routes() and Path(): async () => {}
EmptyAction == <<"empty">>
\* the handler passed to the n-th handleFunc call
Handler(n) == <<"h", n>>
\* the notFoundHandler passed in the routing options
Fallback == <<"fallback">>

Phases == {"global", "groups", "route"}

----------------------------------------------------------------------------
(* Sequence helpers *)

Includes(s, x) == \E i \in 1..Len(s) : s[i] = x

Count(s, x) == Cardinality({i \in 1..Len(s) : s[i] = x})

----------------------------------------------------------------------------
(* HttpRouting: the route builder *)

\* new HttpRouting(path, methods, action), with the field initialisers
NewHttpRouting(path, methods, action) ==
  [path |-> path, methods |-> methods, action |-> action,
   name |-> "<anonymous>", middleware |-> <<>>, middlewareGroups |-> <<>>]

\* the rest arguments of withMethods after the HEAD push
PushHead(methods) ==
  IF Includes(methods, GET) /\ ~Includes(methods, HEAD)
  THEN Append(methods, HEAD)
  ELSE methods

\* mutant: the new methods are put in front of the accepted ones
WithMethodsResultPrepend(current, methods) == PushHead(methods) \o current

\* the value withMethods assigns to this._methods
WithMethodsResult(current, methods) == current \o PushHead(methods)

\* path.replace(/\?.+/i, ""): the leftmost "?" that is followed by at least
\* one character other than a line terminator is removed together with the
\* longest run of such characters after it; only the first match is replaced
QueryStart(path) ==
  LET starts == {i \in 1..(Len(path) - 1) : path[i] = "?" /\ path[i + 1] # NL}
  IN  IF starts = {} THEN 0
      ELSE CHOOSE i \in starts : \A j \in starts : i <= j

QueryEnd(path, i) ==
  LET ends == {j \in (i + 1)..Len(path) : \A k \in (i + 1)..j : path[k] # NL}
  IN  CHOOSE j \in ends : \A k \in ends : k <= j

RemoveQuery(path) ==
  LET i == QueryStart(path)
  IN  IF i = 0 THEN path
      ELSE SubSeq(path, 1, i - 1) \o SubSeq(path, QueryEnd(path, i) + 1, Len(path))

\* A regular expression of the model: an optional ^, a literal prefix, one
\* capture group [0-9]+ (named, or unnamed when name is Undefined), an
\* optional $, and one flag: "u" (no state), "g" or "y" (exec starts at
\* lastIndex and stores the end of the match there)
RegExp(prefix, name, start, end, flags) ==
  [kind |-> "regexp", prefix |-> prefix, name |-> name, start |-> start,
   end |-> end, flags |-> flags, lastIndex |-> 0]

Digits == {"0", "1", "2", "3", "4", "5", "6", "7", "8", "9"}

\* the length of the longest run of digits of text after position i (0-based)
DigitRun(text, i) ==
  LET runs == {k \in 0..(Len(text) - i) : \A j \in (i + 1)..(i + k) : text[j] \in Digits}
  IN  CHOOSE k \in runs : \A l \in runs : l <= k

\* the match of the pattern that starts at position i of text, if there is one
MatchAt(re, text, i) ==
  LET p == Len(re.prefix)
  IN  IF /\ re.start => i = 0
         /\ i + p <= Len(text)
         /\ SubSeq(text, i + 1, i + p) = re.prefix
         /\ DigitRun(text, i + p) >= 1
         /\ re.end => i + p + DigitRun(text, i + p) = Len(text)
      THEN Some([index |-> i,
                 capture |-> SubSeq(text, i + p + 1, i + p + DigitRun(text, i + p)),
                 endIndex |-> i + p + DigitRun(text, i + p)])
      ELSE Undefined

\* RegExp.prototype.exec(text): the leftmost match from the start position
\* (only at the start position when sticky), and the new value of lastIndex
RegExpExec(re, text) ==
  LET stateful == re.flags \in {"g", "y"}
      from == IF stateful THEN re.lastIndex ELSE 0
      candidates == IF re.flags = "y" THEN {from} \cap (0..Len(text)) ELSE from..Len(text)
      hits == {i \in candidates : MatchAt(re, text, i) # Undefined}
      first == CHOOSE i \in hits : \A j \in hits : i <= j
  IN  IF hits = {}
      THEN [result |-> Undefined, lastIndex |-> IF stateful THEN 0 ELSE re.lastIndex]
      ELSE [result |-> MatchAt(re, text, first),
            lastIndex |-> IF stateful THEN MatchAt(re, text, first)[1].endIndex
                          ELSE re.lastIndex]

\* r?.groups: undefined without a match or without a named group
Groups(re, result) ==
  IF result = Undefined \/ re.name = Undefined THEN Undefined
  ELSE Some(<< <<re.name[1], result[1].capture>> >>)

\* new RegExp(pattern).test(text): a copy of the pattern, lastIndex 0
RegExpTest(pattern, text) ==
  RegExpExec([pattern EXCEPT !.lastIndex = 0], text).result # Undefined

\* HttpRouting.hasPath
hasPath(route, path) ==
  LET cleanPath == RemoveQuery(path)
  IN  IF route.path.kind = "string"
      THEN route.path.value = cleanPath
      ELSE RegExpTest(route.path, cleanPath)

\* HttpRouting.hasMethod
hasMethod(route, verb) == Includes(route.methods, verb)

\* HttpRouting.hasMiddlewareGroups
hasMiddlewareGroups(route, name) ==
  \E i \in 1..Len(route.middlewareGroups) : route.middlewareGroups[i].name = name

----------------------------------------------------------------------------
(* Inputs of the set-up calls *)

\* literal patterns and request paths of the dispatch specification
PathA == <<"/", "a">>
PathAQuery == <<"/", "a", "?", "x">>

MethodArgs == {<<GET>>, <<POST>>}

GroupNames == {"web"}

\* the options objects handed to routes(options)
OptionsArgs ==
  {[notFoundHandler |-> Undefined, maxRoutes |-> Undefined],
   [notFoundHandler |-> Some(Fallback), maxRoutes |-> Undefined]}

\* the functions handed to the router, named by the registering call
GlobalMw(n) == <<"global", n>>
RouteMw(o, n) == <<"route", o, n>>
GroupMw(o, g, n) == <<"group", o, g, n>>

RECURSIVE GroupFns(_)
GroupFns(groups) ==
  IF groups = <<>> THEN 0 ELSE Len(Head(groups).handlers) + GroupFns(Tail(groups))

RECURSIVE HeapFns(_)
HeapFns(h) ==
  IF h = <<>> THEN 0
  ELSE Len(Head(h).middleware) + GroupFns(Head(h).middlewareGroups) + HeapFns(Tail(h))

\* middleware functions registered so far
FnCount == Len(globalMiddleware) + HeapFns(heap)

----------------------------------------------------------------------------
(* Set-up: Application.routes and the HttpRouting builder calls *)

Init ==
  /\ heap = <<>>
  /\ RegistredRoutes = <<>>
  /\ RouteOptions = [notFoundHandler |-> Undefined, maxRoutes |-> Undefined]
  /\ globalMiddleware = <<>>
  /\ serving = FALSE
  /\ lastError = NoError
  /\ reqs = <<>>
  /\ probe = <<>>

\* mutant: the route that routes() creates is pushed to the registry
routesRegisters(options) ==
  /\ ~serving
  /\ RouteOptions' = IF options # Undefined THEN options[1] ELSE RouteOptions
  /\ heap' = Append(heap, NewHttpRouting(Str(<<"/">>), <<>>, EmptyAction))
  /\ RegistredRoutes' = Append(RegistredRoutes, Len(heap) + 1)
  /\ lastError' = NoError
  /\ UNCHANGED <<globalMiddleware, serving, reqs, probe>>

\* mutant: the fields of the given options are merged into the configured ones
routesMergesOptions(options) ==
  /\ ~serving
  /\ RouteOptions' =
       IF options = Undefined THEN RouteOptions
       ELSE [f \in DOMAIN RouteOptions |->
               IF options[1][f] # Undefined THEN options[1][f] ELSE RouteOptions[f]]
  /\ heap' = Append(heap, NewHttpRouting(Str(<<"/">>), <<>>, EmptyAction))
  /\ lastError' = NoError
  /\ UNCHANGED <<RegistredRoutes, globalMiddleware, serving, reqs, probe>>

\* Application.routes(options)
routes(options) ==
  /\ ~serving
  /\ RouteOptions' = IF options # Undefined THEN options[1] ELSE RouteOptions
  /\ heap' = Append(heap, NewHttpRouting(Str(<<"/">>), <<>>, EmptyAction))
  /\ lastError' = NoError
  /\ UNCHANGED <<RegistredRoutes, globalMiddleware, serving, reqs, probe>>

\* mutant: the pattern is set on this, which is returned
PathSetsThis(o, value) ==
  /\ ~serving
  /\ heap' = [heap EXCEPT ![o].path = value]
  /\ lastError' = NoError
  /\ UNCHANGED <<RegistredRoutes, RouteOptions, globalMiddleware, serving, reqs, probe>>

\* HttpRouting.Path(value): returns a new HttpRouting, this is not changed
Path(o, value) ==
  /\ ~serving
  /\ heap' = Append(heap, NewHttpRouting(value, <<>>, EmptyAction))
  /\ lastError' = NoError
  /\ UNCHANGED <<RegistredRoutes, RouteOptions, globalMiddleware, serving, reqs, probe>>

\* HttpRouting.withMethods(...methods)
withMethods(o, methods) ==
  /\ ~serving
  /\ heap' = [heap EXCEPT ![o].methods = WithMethodsResult(@, methods)]
  /\ lastError' = NoError
  /\ UNCHANGED <<RegistredRoutes, RouteOptions, globalMiddleware, serving, reqs, probe>>

\* mutant: the middleware is put in front of the list
withMiddlewareUnshift(o, middleware) ==
  /\ ~serving
  /\ heap' = [heap EXCEPT ![o].middleware = <<middleware>> \o @]
  /\ lastError' = NoError
  /\ UNCHANGED <<RegistredRoutes, RouteOptions, globalMiddleware, serving, reqs, probe>>

\* HttpRouting.withMiddleware(middleware)
withMiddleware(o, middleware) ==
  /\ ~serving
  /\ heap' = [heap EXCEPT ![o].middleware = Append(@, middleware)]
  /\ lastError' = NoError
  /\ UNCHANGED <<RegistredRoutes, RouteOptions, globalMiddleware, serving, reqs, probe>>

\* HttpRouting.withName(name)
withName(o, name) ==
  /\ ~serving
  /\ heap' = [heap EXCEPT ![o].name = name]
  /\ lastError' = NoError
  /\ UNCHANGED <<RegistredRoutes, RouteOptions, globalMiddleware, serving, reqs, probe>>

\* mutant: the handlers of the group are also added to the per-route list
withMiddlewareGroupsMerged(o, name, middlewares) ==
  /\ ~serving
  /\ heap' = [heap EXCEPT ![o].middlewareGroups =
                              Append(@, [name |-> name, handlers |-> middlewares]),
                           ![o].middleware = @ \o middlewares]
  /\ lastError' = NoError
  /\ UNCHANGED <<RegistredRoutes, RouteOptions, globalMiddleware, serving, reqs, probe>>

\* HttpRouting.withMiddlewareGroups(name, middlewares)
withMiddlewareGroups(o, name, middlewares) ==
  /\ ~serving
  /\ heap' = [heap EXCEPT ![o].middlewareGroups =
                Append(@, [name |-> name, handlers |-> middlewares])]
  /\ lastError' = NoError
  /\ UNCHANGED <<RegistredRoutes, RouteOptions, globalMiddleware, serving, reqs, probe>>

\* HttpRouting.withGlobalMiddleware(middleware) (static)
withGlobalMiddleware(middleware) ==
  /\ ~serving
  /\ globalMiddleware' = Append(globalMiddleware, middleware)
  /\ lastError' = NoError
  /\ UNCHANGED <<heap, RegistredRoutes, RouteOptions, serving, reqs, probe>>

\* mutant: the handler is set on this, and a new default route is pushed
handleFuncPushesDefault(o, handler) ==
  /\ ~serving
  /\ heap' = Append([heap EXCEPT ![o].action = handler],
                     NewHttpRouting(Str(<<"/", "d">>), <<GET, HEAD>>, EmptyAction))
  /\ RegistredRoutes' = Append(RegistredRoutes, Len(heap) + 1)
  /\ lastError' = NoError
  /\ UNCHANGED <<RouteOptions, globalMiddleware, serving, reqs, probe>>

\* HttpRouting.handleFunc(handler)
handleFunc(o, handler) ==
  /\ ~serving
  /\ heap' = [heap EXCEPT ![o].action = handler]
  /\ RegistredRoutes' = Append(RegistredRoutes, o)
  /\ lastError' = NoError
  /\ UNCHANGED <<RouteOptions, globalMiddleware, serving, reqs, probe>>

\* mutant: the server is started without looking at the registry
listenAndServeUnchecked ==
  /\ ~serving
  /\ serving' = TRUE
  /\ lastError' = NoError
  /\ UNCHANGED <<heap, RegistredRoutes, RouteOptions, globalMiddleware, reqs, probe>>

\* Application.listenAndServe up to the start of the server
listenAndServe ==
  /\ ~serving
  /\ IF Len(RegistredRoutes) = 0
     THEN /\ lastError' = "Register at least one route."
          /\ UNCHANGED serving
     ELSE /\ serving' = TRUE
          /\ lastError' = NoError
  /\ UNCHANGED <<heap, RegistredRoutes, RouteOptions, globalMiddleware, reqs, probe>>

----------------------------------------------------------------------------
(* MiddlewareResolver: one chain per resolve call.  A chain walks `lists`  *)
(* (one list for the global and the per-route chain, one list per group    *)
(* for the group chain); `invoked` and `returned` record what it did.      *)

\* the call middleware(request, response) of entry idx of list g
Call(lists, g, idx) == [list |-> g, idx |-> idx, fn |-> lists[g][idx]]

\* resolveMiddlewareGroups: the for loop over the groups from group g on;
\* resolveMiddlewares of an empty list returns without calling anything
RECURSIVE resolveMiddlewareGroups(_, _)
resolveMiddlewareGroups(c, g) ==
  IF g > Len(c.lists)
  THEN [c EXCEPT !.running = FALSE, !.settled = TRUE]
  ELSE IF Len(c.lists[g]) = 0
       THEN resolveMiddlewareGroups(c, g + 1)
       ELSE [c EXCEPT !.list = g, !.idx = 1, !.running = TRUE,
                      !.invoked = Append(@, Call(c.lists, g, 1))]

\* the call of a resolve function up to its first await
StartChain(lists) ==
  resolveMiddlewareGroups(
    [lists |-> lists, list |-> 0, idx |-> 0, running |-> FALSE,
     settled |-> FALSE, rejected |-> FALSE, invoked |-> <<>>, returned |-> <<>>], 1)

\* mutant: the returned value is not looked at
resolveMiddlewaresNoBreak(c, currentMiddleware) ==
  LET r == [c EXCEPT !.returned = Append(@, currentMiddleware)]
  IN  IF c.idx < Len(c.lists[c.list])
      THEN [r EXCEPT !.idx = c.idx + 1,
                     !.invoked = Append(@, Call(c.lists, c.list, c.idx + 1))]
      ELSE resolveMiddlewareGroups(r, c.list + 1)

\* resolveMiddlewares resumed after `await middleware(request, response)`
\* with the value the middleware returned
resolveMiddlewares(c, currentMiddleware) ==
  LET r == [c EXCEPT !.returned = Append(@, currentMiddleware)]
  IN  IF currentMiddleware = StateCancel \/ currentMiddleware # StateNext
      THEN resolveMiddlewareGroups(r, c.list + 1)
      ELSE IF c.idx < Len(c.lists[c.list])
           THEN [r EXCEPT !.idx = c.idx + 1,
                          !.invoked = Append(@, Call(c.lists, c.list, c.idx + 1))]
           ELSE resolveMiddlewareGroups(r, c.list + 1)

\* the awaited middleware throws (or its promise rejects): the exception
\* leaves resolveMiddlewares, and resolveMiddlewareGroups around it; the
\* promise of the resolve call is rejected
resolveMiddlewaresThrows(c) ==
  [c EXCEPT !.running = FALSE, !.settled = TRUE, !.rejected = TRUE]

GroupLists(groups) == [g \in 1..Len(groups) |-> groups[g].handlers]

\* the three calls handed to Promise.all for one matched route
ResolveAll(route) ==
  [global |-> StartChain(<<globalMiddleware>>),
   groups |-> StartChain(GroupLists(route.middlewareGroups)),
   route  |-> StartChain(<<route.middleware>>)]

\* mutant: the callback runs as soon as one of the promises is fulfilled
AnySettled(task) ==
  \E p \in Phases : task.chains[p].settled /\ ~task.chains[p].rejected

\* Promise.all(...) is fulfilled: every promise is, none is rejected
AllSettled(task) ==
  \A p \in Phases : task.chains[p].settled /\ ~task.chains[p].rejected

----------------------------------------------------------------------------
(* Application.handleHttpRequest *)

Matches(i, method, path) ==
  /\ hasPath(heap[RegistredRoutes[i]], path)
  /\ hasMethod(heap[RegistredRoutes[i]], method)

\* mutant: is_match is set as soon as the path matches
RECURSIVE IsMatchAfterPathOnly(_, _, _, _)
IsMatchAfterPathOnly(i, is_match, method, path) ==
  IF i > Len(RegistredRoutes) THEN is_match
  ELSE IsMatchAfterPathOnly(i + 1, hasPath(heap[RegistredRoutes[i]], path), method, path)

\* the value of is_match after the loop has visited entries i..
RECURSIVE IsMatchAfter(_, _, _, _)
IsMatchAfter(i, is_match, method, path) ==
  IF i > Len(RegistredRoutes) THEN is_match
  ELSE IsMatchAfter(i + 1, Matches(i, method, path), method, path)

\* mutant: the loop ends at the first matching entry
RECURSIVE TasksFromFirstMatch(_, _, _)
TasksFromFirstMatch(i, method, path) ==
  IF i > Len(RegistredRoutes) THEN <<>>
  ELSE IF Matches(i, method, path)
       THEN <<[entry |-> i, route |-> RegistredRoutes[i],
               chains |-> ResolveAll(heap[RegistredRoutes[i]]),
               called |-> <<>>]>>
       ELSE TasksFromFirstMatch(i + 1, method, path)

\* the tasks the loop starts for entries i.., in registry order
RECURSIVE TasksFrom(_, _, _)
TasksFrom(i, method, path) ==
  IF i > Len(RegistredRoutes) THEN <<>>
  ELSE IF Matches(i, method, path)
       THEN <<[entry |-> i, route |-> RegistredRoutes[i],
               chains |-> ResolveAll(heap[RegistredRoutes[i]]),
               called |-> <<>>]>> \o TasksFrom(i + 1, method, path)
       ELSE TasksFrom(i + 1, method, path)

\* route.path.exec(request.path()) on route object o: exec on a pattern with
\* the g or y flag moves the lastIndex of the route's own RegExp
ExecOn(h, o, path) ==
  [h EXCEPT ![o].path.lastIndex = RegExpExec(h[o].path, path).lastIndex]

\* the route objects after the loop has visited entries i..
RECURSIVE HeapAfter(_, _, _, _)
HeapAfter(i, h, method, path) ==
  IF i > Len(RegistredRoutes) THEN h
  ELSE IF Matches(i, method, path) /\ h[RegistredRoutes[i]].path.kind # "string"
       THEN HeapAfter(i + 1, ExecOn(h, RegistredRoutes[i], path), method, path)
       ELSE HeapAfter(i + 1, h, method, path)

\* mutant: the parameters of the first matching entry are kept
RECURSIVE ParametersAfterFirst(_, _, _, _, _)
ParametersAfterFirst(i, h, parameters, method, path) ==
  IF i > Len(RegistredRoutes) THEN parameters
  ELSE IF Matches(i, method, path) /\ h[RegistredRoutes[i]].path.kind # "string"
       THEN Groups(h[RegistredRoutes[i]].path,
                   RegExpExec(h[RegistredRoutes[i]].path, path).result)
       ELSE ParametersAfterFirst(i + 1, h, parameters, method, path)

\* request.parameters after the loop: set by every matching entry whose
\* path is not a string, to r?.groups of route.path.exec(request.path())
RECURSIVE ParametersAfter(_, _, _, _, _)
ParametersAfter(i, h, parameters, method, path) ==
  IF i > Len(RegistredRoutes) THEN parameters
  ELSE IF Matches(i, method, path) /\ h[RegistredRoutes[i]].path.kind # "string"
       THEN ParametersAfter(i + 1, ExecOn(h, RegistredRoutes[i], path),
              Groups(h[RegistredRoutes[i]].path,
                     RegExpExec(h[RegistredRoutes[i]].path, path).result),
              method, path)
       ELSE ParametersAfter(i + 1, h, parameters, method, path)

\* the initial value of HttpRequest._parameters: {}
EmptyParameters == Some(<<>>)

\* HttpRequest.params()
params(request) ==
  IF request.parameters = Undefined THEN <<>> ELSE request.parameters[1]

\* the synchronous part of handleHttpRequest: the scan of the registry, the
\* start of the three chains of every matching entry, the fallback
handleHttpRequest(method, path) ==
  /\ serving
  /\ LET is_match == IsMatchAfter(1, FALSE, method, path)
     IN  reqs' = Append(reqs,
           [method |-> method, path |-> path,
            parameters |-> ParametersAfter(1, heap, EmptyParameters, method, path),
            tasks |-> TasksFrom(1, method, path),
            notFound |-> IF is_match # TRUE /\ RouteOptions.notFoundHandler # Undefined
                         THEN RouteOptions.notFoundHandler
                         ELSE <<>>])
  /\ heap' = HeapAfter(1, heap, method, path)
  /\ UNCHANGED <<RegistredRoutes, RouteOptions, globalMiddleware, serving,
                 lastError, probe>>

\* a middleware awaited by chain p of task t of request r returns
MiddlewareReturns(r, t, p, currentMiddleware) ==
  /\ serving
  /\ reqs[r].tasks[t].chains[p].running
  /\ reqs' = [reqs EXCEPT ![r].tasks[t].chains[p] =
                resolveMiddlewares(@, currentMiddleware)]
  /\ UNCHANGED <<heap, RegistredRoutes, RouteOptions, globalMiddleware, serving,
                 lastError, probe>>

\* a middleware awaited by chain p of task t of request r throws
MiddlewareThrows(r, t, p) ==
  /\ serving
  /\ reqs[r].tasks[t].chains[p].running
  /\ reqs' = [reqs EXCEPT ![r].tasks[t].chains[p] = resolveMiddlewaresThrows(@)]
  /\ UNCHANGED <<heap, RegistredRoutes, RouteOptions, globalMiddleware, serving,
                 lastError, probe>>

\* the then-callback of Promise.all: route.action(request, response)
InvokeAction(r, t) ==
  /\ serving
  /\ AllSettled(reqs[r].tasks[t])
  /\ reqs[r].tasks[t].called = <<>>
  /\ reqs' = [reqs EXCEPT ![r].tasks[t].called =
                Append(@, heap[reqs[r].tasks[t].route].action)]
  /\ UNCHANGED <<heap, RegistredRoutes, RouteOptions, globalMiddleware, serving,
                 lastError, probe>>

\* the message the runtime prints when a rejected promise has no handler
UncaughtError == "Uncaught (in promise)"

\* Promise.all(...).then(...) of task t of request r is rejected and nothing
\* handles the rejection: handleHttpRequest is called without await and
\* without catch, so the error reaches the runtime, which may end the
\* process (the default of the runtime) and with it the server loop and
\* every callback that is still due
UncaughtInPromise(r, t) ==
  /\ serving
  /\ \E p \in Phases : reqs[r].tasks[t].chains[p].rejected
  /\ serving' = FALSE
  /\ lastError' = UncaughtError
  /\ UNCHANGED <<heap, RegistredRoutes, RouteOptions, globalMiddleware, reqs, probe>>

----------------------------------------------------------------------------------------------------------------------------------------------------
(* The callers: what the set-up code and the server loop may do *)

Methods == {GET, HEAD, POST}

\* The caller configures the object the last routes() or Path() call
\* returned, and asks for another one only when that object is registered
\* or still as it was created.
Current == {Len(heap)} \ {0}

Untouched(route) ==
  /\ route.methods = <<>>
  /\ route.middleware = <<>>
  /\ route.middlewareGroups = <<>>

Registered(o) == Includes(RegistredRoutes, o)

MayCreate == \A o \in Current : Untouched(heap[o]) \/ Registered(o)

RoutesArgs == {Undefined} \cup {Some(x) : x \in OptionsArgs}

\* a group of k new functions for the next group of object o
FreshGroup(o) ==
  LET g == Len(heap[o].middlewareGroups) + 1
  IN  {[n \in 1..k |-> GroupMw(o, g, n)] : k \in 0..MaxGroupLen}

\* the chains of the started tasks advance
Serve(outcomes) ==
  \/ \E r \in 1..Len(reqs) : \E t \in 1..Len(reqs[r].tasks) :
       \E p \in Phases, v \in outcomes : MiddlewareReturns(r, t, p, v)
  \/ \E r \in 1..Len(reqs) : \E t \in 1..Len(reqs[r].tasks) : InvokeAction(r, t)

----------------------------------------------------------------------------
(* SpecRoute: an application with one route, built on the object that      *)
(* routes() returns (path "/"), and one request                            *)

RoutePaths == {<<"/">>, <<"/", "?", "x">>, PathA}

NextRoute ==
  \/ \E options \in RoutesArgs : heap = <<>> /\ routes(options)
  \/ \E o \in Current, methods \in MethodArgs :
       ~Includes(heap[o].methods, methods[1]) /\ withMethods(o, methods)
  \/ \E o \in Current :
       FnCount < MaxFns /\ withMiddleware(o, RouteMw(o, Len(heap[o].middleware) + 1))
  \/ \E o \in Current, name \in GroupNames : \E middlewares \in FreshGroup(o) :
       /\ Len(heap[o].middlewareGroups) < MaxGroups
       /\ FnCount + Len(middlewares) <= MaxFns
       /\ withMiddlewareGroups(o, name, middlewares)
  \/ FnCount < MaxFns /\ withGlobalMiddleware(GlobalMw(Len(globalMiddleware) + 1))
  \/ \E o \in Current : RegistredRoutes = <<>> /\ handleFunc(o, Handler(1))
  \/ listenAndServe
  \/ \E method \in Methods, path \in RoutePaths :
       reqs = <<>> /\ handleHttpRequest(method, path)
  \/ Serve(Outcomes)

SpecRoute == Init /\ [][NextRoute]_vars

\* SpecErrors: the same application, with middleware that may throw
NextErrors ==
  \/ NextRoute
  \/ \E r \in 1..Len(reqs) : \E t \in 1..Len(reqs[r].tasks) :
       \E p \in Phases : MiddlewareThrows(r, t, p)

SpecErrors == Init /\ [][NextErrors]_vars

----------------------------------------------------------------------------------------------------------------------------------------------------
(* Spec: an application with several registry entries and one request.     *)
(* The first object is the one routes() returns (path "/"); entries that   *)
(* respond to the same path are that object and a Path("/") object, or one *)
(* object registered twice.                                                *)

AppPatterns == {Str(<<"/">>), Str(PathA)}
AppPaths == {<<"/">>, PathA, PathAQuery}
AppMethodArgs == {<<GET>>}
AppMethods == {GET, POST}
AppOutcomes == {StateNext, StateCancel}

\* a group of one or more new functions
NonEmpty(groups) == {g \in groups : g # <<>>}

Next ==
  \/ \E options \in RoutesArgs :
       MayCreate /\ Len(heap) < MaxEntries /\ routes(options)
  \/ \E o \in Current, value \in AppPatterns :
       MayCreate /\ Len(heap) < MaxEntries /\ Path(o, value)
  \/ \E o \in Current, methods \in AppMethodArgs :
       ~Includes(heap[o].methods, methods[1]) /\ withMethods(o, methods)
  \/ \E o \in Current :
       FnCount < MaxAppFns /\ withMiddleware(o, RouteMw(o, Len(heap[o].middleware) + 1))
  \/ \E o \in Current, name \in GroupNames : \E middlewares \in NonEmpty(FreshGroup(o)) :
       /\ Len(heap[o].middlewareGroups) < MaxGroups
       /\ FnCount + Len(middlewares) <= MaxAppFns
       /\ withMiddlewareGroups(o, name, middlewares)
  \/ FnCount < MaxAppFns /\ withGlobalMiddleware(GlobalMw(Len(globalMiddleware) + 1))
  \/ \E o \in Current :
       Len(RegistredRoutes) < MaxEntries /\ handleFunc(o, Handler(Len(RegistredRoutes) + 1))
  \/ listenAndServe
  \/ \E method \in AppMethods, path \in AppPaths :
       reqs = <<>> /\ handleHttpRequest(method, path)
  \/ Serve(AppOutcomes)

Spec == Init /\ [][Next]_vars

\* The middleware return and the event loop runs the then-callback.
FairSpec == Spec /\ WF_vars(Serve(AppOutcomes))

----------------------------------------------------------------------------
(* SpecRequests: an application with one route and several requests in     *)
(* flight at the same time; a middleware may return, throw, or stay        *)
(* pending for ever                                                        *)

RequestPaths == {<<"/">>, PathA}

NextRequests ==
  \/ \E options \in RoutesArgs : heap = <<>> /\ routes(options)
  \/ \E o \in Current, methods \in AppMethodArgs :
       /\ reqs = <<>>
       /\ ~Includes(heap[o].methods, methods[1])
       /\ withMethods(o, methods)
  \/ \E o \in Current :
       /\ reqs = <<>>
       /\ FnCount < MaxAppFns
       /\ withMiddleware(o, RouteMw(o, Len(heap[o].middleware) + 1))
  \/ /\ reqs = <<>>
     /\ FnCount < MaxAppFns
     /\ withGlobalMiddleware(GlobalMw(Len(globalMiddleware) + 1))
  \/ \E o \in Current : RegistredRoutes = <<>> /\ handleFunc(o, Handler(1))
  \/ reqs = <<>> /\ listenAndServe
  \/ \E method \in AppMethods, path \in RequestPaths :
       Len(reqs) < MaxRequests /\ handleHttpRequest(method, path)
  \/ Serve(AppOutcomes)
  \/ \E r \in 1..Len(reqs) : \E t \in 1..Len(reqs[r].tasks) :
       \E p \in Phases : MiddlewareThrows(r, t, p)
  \/ \E r \in 1..Len(reqs) : \E t \in 1..Len(reqs[r].tasks) : UncaughtInPromise(r, t)

SpecRequests == Init /\ [][NextRequests]_vars

----------------------------------------------------------------------------
(* SpecRegistry: any sequence of routes(options) and builder calls, with   *)
(* maxRoutes configured or not                                             *)

RegistryOptions ==
  {[notFoundHandler |-> Undefined, maxRoutes |-> Undefined]} \cup
  {[notFoundHandler |-> Undefined, maxRoutes |-> Some(n)] : n \in 0..(MaxEntries - 1)}

RegistryArgs == {Undefined} \cup {Some(x) : x \in RegistryOptions}

RouteNames == {"profile"}

NextRegistry ==
  \/ \E options \in RegistryArgs : Len(heap) < MaxObjects /\ routes(options)
  \/ \E o \in Current, value \in AppPatterns : Len(heap) < MaxObjects /\ Path(o, value)
  \/ \E o \in Current, methods \in AppMethodArgs :
       ~Includes(heap[o].methods, methods[1]) /\ withMethods(o, methods)
  \/ \E o \in Current :
       FnCount < MaxAppFns /\ withMiddleware(o, RouteMw(o, Len(heap[o].middleware) + 1))
  \/ \E o \in Current, name \in GroupNames : \E middlewares \in NonEmpty(FreshGroup(o)) :
       /\ Len(heap[o].middlewareGroups) < MaxGroups
       /\ FnCount + Len(middlewares) <= MaxAppFns
       /\ withMiddlewareGroups(o, name, middlewares)
  \/ \E o \in Current, name \in RouteNames : heap[o].name # name /\ withName(o, name)
  \/ \E o \in Current :
       Len(RegistredRoutes) < MaxEntries /\ handleFunc(o, Handler(Len(RegistredRoutes) + 1))

SpecRegistry == Init /\ [][NextRegistry]_vars

----------------------------------------------------------------------------
(* SpecParams: an application with one route whose pattern is a regular    *)
(* expression with the named group id, and a few requests                  *)

ParamPrefix == <<"/">>

ParamPatterns ==
  {RegExp(ParamPrefix, Some("id"), start, end, flags) :
     start \in BOOLEAN, end \in BOOLEAN, flags \in {"u", "g", "y"}}

ParamPaths ==
  {<<"/", "4">>, <<"/", "4", "2">>, <<"/", "a">>, <<"/", "4", "?", "a">>,
   <<"/", "4", "?", "/", "2">>, <<"a", "/", "4">>}

NextParams ==
  \/ \E options \in RoutesArgs : heap = <<>> /\ routes(options)
  \/ \E o \in Current, value \in ParamPatterns : Len(heap) = 1 /\ Path(o, value)
  \/ \E o \in Current, methods \in AppMethodArgs :
       /\ Len(heap) = 2
       /\ ~Includes(heap[o].methods, methods[1])
       /\ withMethods(o, methods)
  \/ \E o \in Current :
       Len(heap) = 2 /\ RegistredRoutes = <<>> /\ handleFunc(o, Handler(1))
  \/ listenAndServe
  \/ \E method \in AppMethods, path \in ParamPaths :
       Len(reqs) < MaxRequests /\ handleHttpRequest(method, path)
  \/ \E r \in 1..Len(reqs) : \E t \in 1..Len(reqs[r].tasks) : InvokeAction(r, t)

SpecParams == Init /\ [][NextParams]_vars

----------------------------------------------------------------------------
(* SpecMulti: routes built one after another through the builder object    *)
(* r = routes(): r.Path(a).withMethods(..).handleFunc(h1), then            *)
(* r.Path(b).withMethods(..).handleFunc(h2), with literal patterns and     *)
(* patterns with a named group, and one request                            *)

MultiPatterns ==
  AppPatterns \cup
  {RegExp(ParamPrefix, Some("id"), FALSE, FALSE, "u"),
   RegExp(ParamPrefix, Some("slug"), FALSE, TRUE, "u"),
   RegExp(ParamPrefix, Some("id"), TRUE, FALSE, "g")}

MultiPaths == {<<"/">>, PathA, <<"/", "4">>, <<"/", "4", "?", "a">>}

NextMulti ==
  \/ \E options \in RoutesArgs : heap = <<>> /\ routes(options)
  \/ \E value \in MultiPatterns :
       /\ heap # <<>>
       /\ MayCreate
       /\ Len(heap) <= MaxEntries
       /\ Path(1, value)
  \/ \E o \in Current, methods \in AppMethodArgs :
       /\ ~Registered(o)
       /\ ~Includes(heap[o].methods, methods[1])
       /\ withMethods(o, methods)
  \/ \E o \in Current :
       /\ ~Registered(o)
       /\ Len(RegistredRoutes) < MaxEntries
       /\ handleFunc(o, Handler(Len(RegistredRoutes) + 1))
  \/ listenAndServe
  \/ \E method \in AppMethods, path \in MultiPaths :
       reqs = <<>> /\ handleHttpRequest(method, path)
  \/ \E r \in 1..Len(reqs) : \E t \in 1..Len(reqs[r].tasks) : InvokeAction(r, t)

SpecMulti == Init /\ [][NextMulti]_vars

----------------------------------------------------------------------------
(* SpecOptions: routes is called several times, with and without options,  *)
(* before the application serves one request                               *)

\* a second notFoundHandler
OtherFallback == <<"fallback", 2>>

AllOptions ==
  {[notFoundHandler |-> h, maxRoutes |-> m] :
     h \in {Undefined, Some(Fallback), Some(OtherFallback)},
     m \in {Undefined, Some(1)}}

AllRoutesArgs == {Undefined} \cup {Some(x) : x \in AllOptions}

NextOptions ==
  \/ \E options \in AllRoutesArgs : Len(heap) < MaxObjects /\ routes(options)
  \/ \E o \in Current, methods \in AppMethodArgs :
       ~Includes(heap[o].methods, methods[1]) /\ withMethods(o, methods)
  \/ \E o \in Current :
       Len(RegistredRoutes) < MaxEntries /\ handleFunc(o, Handler(Len(RegistredRoutes) + 1))
  \/ listenAndServe
  \/ \E method \in AppMethods, path \in AppPaths :
       reqs = <<>> /\ handleHttpRequest(method, path)
  \/ \E r \in 1..Len(reqs) : \E t \in 1..Len(reqs[r].tasks) : InvokeAction(r, t)

SpecOptions == Init /\ [][NextOptions]_vars

----------------------------------------------------------------------------
(* SpecMethods: one HttpRouting object, as the repository's test builds    *)
(* it, and any sequence of withMethods calls                               *)

MethodLists ==
  {<<GET>>, <<HEAD>>, <<POST>>, <<GET, HEAD>>, <<HEAD, GET>>, <<GET, POST>>}

ProbeVerbs == {GET, HEAD, POST, PUT, "get"}

InitMethods ==
  /\ heap = <<NewHttpRouting(Str(<<"/">>), <<>>, EmptyAction)>>
  /\ RegistredRoutes = <<>>
  /\ RouteOptions = [notFoundHandler |-> Undefined, maxRoutes |-> Undefined]
  /\ globalMiddleware = <<>>
  /\ serving = FALSE
  /\ lastError = NoError
  /\ reqs = <<>>
  /\ probe = <<>>

\* a call of hasMethod(verb), with its result
CallHasMethod(o, verb) ==
  /\ probe' = <<[verb |-> verb, result |-> hasMethod(heap[o], verb)]>>
  /\ UNCHANGED <<heap, RegistredRoutes, RouteOptions, globalMiddleware, serving,
                 lastError, reqs>>

NextMethods ==
  \/ \E methods \in MethodLists :
       /\ Len(heap[1].methods) + Len(PushHead(methods)) <= MaxMethods
       /\ withMethods(1, methods)
  \/ \E verb \in ProbeVerbs : CallHasMethod(1, verb)

SpecMethods == InitMethods /\ [][NextMethods]_vars

----------------------------------------------------------------------------
(* SpecPath: hasPath applied to a literal pattern and a request path *)

PathChars == {"/", "a", "?", NL}
PatternChars == {"/", "a"}

SeqsUpTo(S, n) == UNION {[1..k -> S] : k \in 0..n}

InitPath ==
  /\ heap \in {<<NewHttpRouting(Str(p), <<>>, EmptyAction)>> :
                 p \in SeqsUpTo(PatternChars, MaxPatternLen)}
  /\ RegistredRoutes = <<>>
  /\ RouteOptions = [notFoundHandler |-> Undefined, maxRoutes |-> Undefined]
  /\ globalMiddleware = <<>>
  /\ serving = FALSE
  /\ lastError = NoError
  /\ reqs = <<>>
  /\ probe = <<>>

\* a call of hasPath(path), with its result
CallHasPath(o, path) ==
  /\ probe' = <<[path |-> path, result |-> hasPath(heap[o], path)]>>
  /\ UNCHANGED <<heap, RegistredRoutes, RouteOptions, globalMiddleware, serving,
                 lastError, reqs>>

NextPath == \E path \in SeqsUpTo(PathChars, MaxPathLen) : CallHasPath(1, path)

SpecPath == InitPath /\ [][NextPath]_vars

----------------------------------------------------------------------------
(* Claims about the middleware chains of one matched route (SpecRoute) *)

TaskIds == {<<r, t>> : r \in 1..Len(reqs), t \in 1..MaxEntries}
Started == {k \in TaskIds : k[2] <= Len(reqs[k[1]].tasks)}
Task(k) == reqs[k[1]].tasks[k[2]]

AllNext(returned) == \A i \in 1..Len(returned) : returned[i] = StateNext

\* C1: once a global middleware has returned Cancel for a matched route of a
\* request, no group middleware and no per-route middleware has been invoked
\* for that route and request, and its handler has not been invoked.
C1_GlobalCancelStopsAll ==
  \A k \in Started :
    Includes(Task(k).chains.global.returned, StateCancel) =>
      /\ Task(k).chains.groups.invoked = <<>>
      /\ Task(k).chains.route.invoked = <<>>
      /\ Task(k).called = <<>>

\* C2: the handler of a matched route has been invoked only if every
\* middleware invoked for that route in that request (global, group and
\* per-route) has returned, and returned Next.
C2_HandlerOnlyIfAllNext ==
  \A k \in Started :
    Task(k).called # <<>> =>
      \A p \in Phases :
        /\ Len(Task(k).chains[p].returned) = Len(Task(k).chains[p].invoked)
        /\ AllNext(Task(k).chains[p].returned)

\* C3: the phases run in the order global, groups, per-route: a group
\* middleware has been invoked only if the global chain has settled, and a
\* per-route middleware only if the group chains have settled.
C3_PhasesInOrder ==
  \A k \in Started :
    /\ Task(k).chains.groups.invoked # <<>> => Task(k).chains.global.settled
    /\ Task(k).chains.route.invoked # <<>> => Task(k).chains.groups.settled

\* C4: the per-route middleware are invoked in the order in which
\* withMiddleware added them (the i-th invocation is the i-th function
\* added), one at a time, each only after the previous one has returned
\* Next, and all of them when each returns Next.
C4_RouteMiddlewareInOrder ==
  \A k \in Started :
    LET c == Task(k).chains.route
    IN  /\ \A i \in 1..Len(c.invoked) : c.invoked[i].fn = RouteMw(Task(k).route, i)
        /\ Len(c.invoked) <= Len(c.returned) + 1
        /\ \A i \in 1..(Len(c.invoked) - 1) :
             i <= Len(c.returned) /\ c.returned[i] = StateNext
        /\ (c.settled /\ AllNext(c.returned)) =>
             Len(c.invoked) = Len(heap[Task(k).route].middleware)

\* C4 witness: three per-route middleware A, B, C have all run and returned Next
C4_Witness ==
  \E k \in Started :
    LET c == Task(k).chains.route
    IN  /\ Len(heap[Task(k).route].middleware) = 3
        /\ Len(c.invoked) = 3
        /\ c.settled
        /\ AllNext(c.returned)

\* C5: within one middleware list, once a middleware has returned a value
\* other than Next, no later middleware of that list is invoked.
C5_ListStopsAfterNonNext ==
  \A k \in Started : \A p \in Phases :
    LET c == Task(k).chains[p]
    IN  \A i \in 1..Len(c.returned) :
          c.returned[i] # StateNext =>
            \A j \in (i + 1)..Len(c.invoked) : c.invoked[j].list # c.invoked[i].list

\* C5 witness: a middleware that was followed by another one in its list
\* returned undefined, and the chain has settled
C5_Witness ==
  \E k \in Started : \E p \in Phases :
    LET c == Task(k).chains[p]
    IN  /\ c.settled
        /\ \E i \in 1..Len(c.returned) :
             /\ c.returned[i] = StateOther
             /\ c.invoked[i].idx < Len(c.lists[c.invoked[i].list])

----------------------------------------------------------------------------
(* Claims about the scan of the registry and the fallback (Spec) *)

Entries == 1..MaxEntries

\* entry i is registered and responds to the path and method of request r
MatchedBy(r, i) ==
  /\ i <= Len(RegistredRoutes)
  /\ Matches(i, reqs[r].method, reqs[r].path)

NoMatch(r) == \A i \in Entries : ~MatchedBy(r, i)

\* the registry positions for which the loop started a task, in order
RECURSIVE EntriesOf(_)
EntriesOf(tasks) ==
  IF tasks = <<>> THEN <<>> ELSE <<Head(tasks).entry>> \o EntriesOf(Tail(tasks))

\* C6: for a request that matches no registered entry, no route handler is
\* started, and the notFoundHandler has been invoked exactly once for that
\* request if one is configured, and nothing has been invoked if none is.
C6_NoMatchFallbackOnce ==
  \A r \in 1..Len(reqs) :
    NoMatch(r) =>
      /\ reqs[r].tasks = <<>>
      /\ reqs[r].notFound =
           IF RouteOptions.notFoundHandler = Undefined THEN <<>> ELSE <<Fallback>>

\* C6 witness: an unmatched request for which the configured fallback ran
C6_Witness ==
  \E r \in 1..Len(reqs) :
    /\ NoMatch(r)
    /\ RouteOptions.notFoundHandler # Undefined
    /\ reqs[r].notFound = <<Fallback>>

\* C7: the fallback is invoked only if no registered entry matched the
\* request: when an entry matches, the fallback has not been invoked,
\* whatever entries are registered after the matching one.
C7_FallbackOnlyIfNoMatch ==
  \A r \in 1..Len(reqs) :
    (\E i \in Entries : MatchedBy(r, i)) => reqs[r].notFound = <<>>

\* C8: every registered entry that matches the request gets its middleware
\* resolved (the scan does not stop at the first match), its handler is
\* invoked at most once, and invoked eventually unless one of its middleware
\* returned a value other than Next.
C8_EveryMatchRuns ==
  /\ [](\A r \in 1..Len(reqs) :
          /\ \A i \in Entries : MatchedBy(r, i) <=> Includes(EntriesOf(reqs[r].tasks), i)
          /\ \A t \in 1..Len(reqs[r].tasks) :
               /\ Len(reqs[r].tasks[t].called) <= 1
               /\ \A n \in 1..Len(reqs[r].tasks[t].called) :
                    reqs[r].tasks[t].called[n] = heap[reqs[r].tasks[t].route].action)
  /\ \A i \in Entries :
       (reqs # <<>> /\ MatchedBy(1, i)) ~>
         (/\ reqs # <<>>
          /\ \E t \in 1..Len(reqs[1].tasks) :
               /\ reqs[1].tasks[t].entry = i
               /\ \/ Len(reqs[1].tasks[t].called) = 1
                  \/ \E p \in Phases : ~AllNext(reqs[1].tasks[t].chains[p].returned))

\* C8 witness: two entries matched one request, the middleware of both
\* returned Next, both handlers have been invoked
C8_Witness ==
  \E r \in 1..Len(reqs) :
    /\ Len(reqs[r].tasks) = 2
    /\ \E t \in 1..2 : \E p \in Phases : reqs[r].tasks[t].chains[p].returned # <<>>
    /\ \A t \in 1..2 :
         /\ Len(reqs[r].tasks[t].called) = 1
         /\ \A p \in Phases : AllNext(reqs[r].tasks[t].chains[p].returned)

----------------------------------------------------------------------------
(* Claims about the builder's pure functions *)

\* C9: once GET has been added with withMethods, HEAD is accepted and occurs
\* exactly once in the route's accepted methods, also when withMethods(GET)
\* is called repeatedly.
C9_HeadExactlyOnce ==
  \A o \in 1..Len(heap) :
    Includes(heap[o].methods, GET) =>
      /\ hasMethod(heap[o], HEAD)
      /\ Count(heap[o].methods, HEAD) = 1

\* the part of a path before its first "?"
BeforeFirstQuery(path) ==
  LET qs == {i \in 1..Len(path) : path[i] = "?"}
  IN  IF qs = {} THEN path
      ELSE SubSeq(path, 1, (CHOOSE i \in qs : \A j \in qs : i <= j) - 1)

\* C10: for a literal pattern, hasPath(path) is true if and only if the part
\* of path before its first "?" equals the pattern.
C10_LiteralMatchIgnoresQuery ==
  \A n \in 1..Len(probe) :
    probe[n].result <=> (BeforeFirstQuery(probe[n].path) = heap[1].path.value)

----------------------------------------------------------------------------
(* Claims about route parameters (SpecParams) *)

HasId(route) == route.path.kind = "regexp" /\ route.path.name = Some("id")

\* the substring the group captures in the path without its query string
Captured(pattern, path) ==
  RegExpExec([pattern EXCEPT !.lastIndex = 0], RemoveQuery(path)).result[1].capture

\* C11: when the handler of a route whose pattern has the named group id is
\* invoked for a request, the request's parameter mapping is {id: the
\* substring the group captures in the request's path}; a request that
\* matches no entry starts no handler, keeps its empty parameter mapping and
\* gets the fallback if one is configured.
C11_RegexParameters ==
  \A r \in 1..Len(reqs) :
    /\ \A t \in 1..Len(reqs[r].tasks) :
         (HasId(heap[reqs[r].tasks[t].route]) /\ reqs[r].tasks[t].called # <<>>) =>
           params(reqs[r]) =
             << <<"id", Captured(heap[reqs[r].tasks[t].route].path, reqs[r].path)>> >>
    /\ NoMatch(r) =>
         /\ reqs[r].tasks = <<>>
         /\ reqs[r].parameters = EmptyParameters
         /\ reqs[r].notFound =
              IF RouteOptions.notFoundHandler = Undefined THEN <<>> ELSE <<Fallback>>

----------------------------------------------------------------------------
(* Claims about the registry and the builder (SpecRegistry) *)

\* the message of the capacity error
CapacityError(n) == "Maximum allowed number of routes: " \o ToString(n)

\* C12: a handleFunc call made while maxRoutes = N is configured and N
\* routes are registered fails with the HttpError "Maximum allowed number of
\* routes: N".
C12_CapacityError ==
  [][\A o \in 1..Len(heap), n \in 1..MaxEntries :
       (/\ RouteOptions.maxRoutes # Undefined
        /\ Len(RegistredRoutes) = RouteOptions.maxRoutes[1]
        /\ handleFunc(o, Handler(n)))
       => lastError' = CapacityError(RouteOptions.maxRoutes[1])]_vars

\* C13: if maxRoutes is configured, the number of registered routes is at
\* most maxRoutes.
C13_RegistryWithinMaxRoutes ==
  RouteOptions.maxRoutes # Undefined =>
    Len(RegistredRoutes) <= RouteOptions.maxRoutes[1]

RegisteredOnce(i) ==
  \A j \in 1..Len(RegistredRoutes) : RegistredRoutes[j] = RegistredRoutes[i] => j = i

C16_PathKeepsConfiguration ==
  [][\A o \in Current, value \in AppPatterns \ {Str(<<"/">>)} :
       Path(o, value) =>
         /\ heap'[Len(heap')].path = value
         /\ heap'[Len(heap')].methods = heap[o].methods
         /\ heap'[Len(heap')].middleware = heap[o].middleware
         /\ heap'[Len(heap')].middlewareGroups = heap[o].middlewareGroups
         /\ heap'[Len(heap')].name = heap[o].name]_vars

----------------------------------------------------------------------------
(* Claims about the middleware lists of a route (SpecRoute) *)

\* C17: a withMiddlewareGroups(name, list) call adds one group whose handlers
\* are list, in order, and leaves the per-route list as it is; a
\* withMiddleware call leaves the groups as they are; so every group holds
\* exactly the functions it was given (GroupMw(o, g, 1..)) and the per-route
\* list exactly the functions given to withMiddleware (RouteMw(o, 1..)).
C17_GroupsNotMerged ==
  /\ [][\A o \in 1..Len(heap) :
          /\ \A name \in GroupNames : \A middlewares \in FreshGroup(o) :
               withMiddlewareGroups(o, name, middlewares) =>
                 /\ heap'[o].middleware = heap[o].middleware
                 /\ heap'[o].middlewareGroups =
                      Append(heap[o].middlewareGroups,
                             [name |-> name, handlers |-> middlewares])
          /\ withMiddleware(o, RouteMw(o, Len(heap[o].middleware) + 1)) =>
               heap'[o].middlewareGroups = heap[o].middlewareGroups]_vars
  /\ [](\A o \in 1..Len(heap) :
          /\ \A i \in 1..Len(heap[o].middleware) : heap[o].middleware[i] = RouteMw(o, i)
          /\ \A g \in 1..Len(heap[o].middlewareGroups) :
               \A n \in 1..Len(heap[o].middlewareGroups[g].handlers) :
                 heap[o].middlewareGroups[g].handlers[n] = GroupMw(o, g, n))

\* C17 witness: a route with a group of two middleware and a per-route
\* middleware added after the group
C17_Witness ==
  \E o \in 1..Len(heap) :
    /\ heap[o].middleware = <<RouteMw(o, 1)>>
    /\ heap[o].middlewareGroups =
         <<[name |-> "web", handlers |-> <<GroupMw(o, 1, 1), GroupMw(o, 1, 2)>>]>>

\* C18: once a middleware has raised an error for a route and request, no
\* further middleware of any phase is invoked for that route and request,
\* and its handler is not invoked.
C18_ErrorStopsChain ==
  [][\A k \in Started :
       (\E p \in Phases : Task(k).chains[p].rejected) =>
         /\ \A q \in Phases :
              reqs'[k[1]].tasks[k[2]].chains[q].invoked = Task(k).chains[q].invoked
         /\ Task(k).called = <<>>
         /\ reqs'[k[1]].tasks[k[2]].called = <<>>]_vars

----------------------------------------------------------------------------
(* Claims about the global middleware (Spec) *)

\* C19: for every request handed to the application, also one that matches
\* no route, the global middleware run: the first registered global
\* middleware has been invoked for the request, and the invocations of a
\* global chain follow the registration order.
C19_GlobalRunsForEveryRequest ==
  \A r \in 1..Len(reqs) :
    globalMiddleware # <<>> =>
      /\ \E t \in 1..Len(reqs[r].tasks) :
           reqs[r].tasks[t].chains.global.invoked # <<>>
      /\ \A t \in 1..Len(reqs[r].tasks) :
           \A i \in 1..Len(reqs[r].tasks[t].chains.global.invoked) :
             reqs[r].tasks[t].chains.global.invoked[i].fn = GlobalMw(i)

----------------------------------------------------------------------------
(* Claims about the accepted methods (SpecMethods) *)

\* C20: withMethods(m...) keeps the methods the route accepts, in their
\* order, and puts the given methods after them, in the given order (followed
\* by nothing else than the implied HEAD); hasMethod(v) is true exactly if v
\* is one of the accepted methods, compared as it is written.
C20_WithMethodsAppends ==
  /\ [][\A methods \in MethodLists :
          withMethods(1, methods) =>
            LET old == heap[1].methods
                new == heap'[1].methods
            IN  /\ Len(new) >= Len(old) + Len(methods)
                /\ SubSeq(new, 1, Len(old)) = old
                /\ SubSeq(new, Len(old) + 1, Len(old) + Len(methods)) = methods
                /\ SubSeq(new, Len(old) + Len(methods) + 1, Len(new)) \in {<<>>, <<HEAD>>}]_vars
  /\ [][\A verb \in ProbeVerbs :
          CallHasMethod(1, verb) =>
            (probe'[1].result <=> verb \in {heap[1].methods[i] : i \in 1..Len(heap[1].methods)})]_vars

\* C20 witness: a route accepting [GET, HEAD] accepts [GET, HEAD, POST] after
\* withMethods(POST), and hasMethod("get") has answered false
C20_Witness ==
  /\ heap[1].methods = <<GET, HEAD, POST>>
  /\ probe = <<[verb |-> "get", result |-> FALSE]>>

----------------------------------------------------------------------------
(* Claims about requests in flight at the same time (SpecRequests) *)

\* request r has raised no error and has work due: a middleware it awaits or
\* a handler whose chains are all fulfilled
Pending(r) ==
  /\ \A t \in 1..Len(reqs[r].tasks) :
       \A p \in Phases : ~reqs[r].tasks[t].chains[p].rejected
  /\ \E t \in 1..Len(reqs[r].tasks) :
       \/ \E p \in Phases : reqs[r].tasks[t].chains[p].running
       \/ AllSettled(reqs[r].tasks[t]) /\ reqs[r].tasks[t].called = <<>>

\* C21: requests are independent tasks: whatever another request does (its
\* chain cancels, raises an error or stays pending), a request that is
\* being served and has work due keeps being served, so that its chain and
\* handler can run to completion: no step that is not a step of that
\* request takes it out of service.
C21_RequestsIndependent ==
  [][\A r \in 1..Len(reqs) :
       (serving /\ Pending(r) /\ reqs'[r] = reqs[r]) => serving']_vars

----------------------------------------------------------------------------
(* Claims about route parameters and the query string (SpecParams) *)

\* C22: for a route whose pattern has the named group id and keeps no state
\* between calls, and a request whose path carries a query string and
\* matches the route, the parameters bound to the request are those the
\* pattern captures in the path with its query string removed: id is bound,
\* and its value holds no text from the "?" on.
C22_ParametersFromStrippedPath ==
  \A r \in 1..Len(reqs) : \A t \in 1..Len(reqs[r].tasks) :
    LET route == heap[reqs[r].tasks[t].route]
    IN  (HasId(route) /\ route.path.flags = "u" /\ QueryStart(reqs[r].path) # 0) =>
          reqs[r].parameters = Some(<< <<"id", Captured(route.path, reqs[r].path)>> >>)

----------------------------------------------------------------------------
(* SpecLegacy: the earlier builder, in which NewRoute pushes the route it   *)
(* creates, Path sets the pattern of this, and HandleFunc checks maxRoutes, *)
(* sets the handler of this and pushes the next route                       *)

\* the handler of the route NewRoute creates: it logs "Hello"
HelloAction == <<"hello">>

DefaultPath == <<"/", "d", "e", "f", "a", "u", "l", "t">>

\* Application.NewRoute(options)
NewRoute(options) ==
  /\ ~serving
  /\ RouteOptions' = IF options # Undefined THEN options[1] ELSE RouteOptions
  /\ heap' = Append(heap, NewHttpRouting(Str(<<"/">>), <<GET>>, HelloAction))
  /\ RegistredRoutes' = Append(RegistredRoutes, Len(heap) + 1)
  /\ lastError' = NoError
  /\ UNCHANGED <<globalMiddleware, serving, reqs, probe>>

\* HttpRouting.Path(value) of the earlier builder: this.path = value
LegacyPath(o, value) ==
  /\ ~serving
  /\ heap' = [heap EXCEPT ![o].path = value]
  /\ lastError' = NoError
  /\ UNCHANGED <<RegistredRoutes, RouteOptions, globalMiddleware, serving, reqs, probe>>

\* HttpRouting.HandleFunc(handler) of the earlier builder
HandleFunc(o, handler) ==
  /\ ~serving
  /\ IF /\ RouteOptions.maxRoutes # Undefined
        /\ Len(RegistredRoutes) > RouteOptions.maxRoutes[1]
     THEN /\ lastError' = CapacityError(RouteOptions.maxRoutes[1])
          /\ UNCHANGED <<heap, RegistredRoutes>>
     ELSE /\ heap' = Append([heap EXCEPT ![o].action = handler],
                            NewHttpRouting(Str(DefaultPath), <<GET>>, EmptyAction))
          /\ RegistredRoutes' = Append(RegistredRoutes, Len(heap) + 1)
          /\ lastError' = NoError
  /\ UNCHANGED <<RouteOptions, globalMiddleware, serving, reqs, probe>>

\* text contains the literal characters of pattern
Contains(text, pattern) ==
  \E i \in 0..(Len(text) - Len(pattern)) : SubSeq(text, i + 1, i + Len(pattern)) = pattern

\* HttpRouting.HasPath of the earlier builder, for a pattern given as a
\* string of literal characters: new RegExp(this.path).test(cleanPath)
HasPath(route, path) ==
  LET cleanPath == RemoveQuery(path)
  IN  route.path.value = cleanPath \/ Contains(cleanPath, route.path.value)

\* HttpRouting.HasMethod of the earlier builder
HasMethod(route, verb) == Includes(route.methods, verb)

LegacyOptions ==
  {[notFoundHandler |-> Undefined, maxRoutes |-> Undefined]} \cup
  {[notFoundHandler |-> Undefined, maxRoutes |-> Some(n)] : n \in 0..(MaxLegacyRoutes - 1)}

NextLegacy ==
  \/ \E options \in {Undefined} \cup {Some(x) : x \in LegacyOptions} :
       Len(heap) < MaxLegacyRoutes /\ NewRoute(options)
  \/ \E o \in Current, value \in AppPatterns :
       heap[o].path # value /\ LegacyPath(o, value)
  \/ \E o \in Current :
       Len(heap) < MaxLegacyRoutes /\ HandleFunc(o, Handler(o))

SpecLegacy == Init /\ [][NextLegacy]_vars

\* a request of the dispatch inputs that route object o, as an entry of the
\* registry, responds to
MatchedLater(o) ==
  /\ Includes(RegistredRoutes, o)
  /\ \E method \in AppMethods, path \in AppPaths :
       HasPath(heap[o], path) /\ HasMethod(heap[o], method)

\* C23: a HandleFunc call that fails with the capacity error leaves the
\* registry and the route objects as they were, and the route it was called
\* on is not an entry of the registry that a later request can match.
C23_FailedHandleFuncLeavesRegistry ==
  [][\A o \in Current :
       (HandleFunc(o, Handler(o)) /\ lastError' # NoError) =>
         /\ RegistredRoutes' = RegistredRoutes
         /\ heap' = heap
         /\ ~MatchedLater(o)']_vars

----------------------------------------------------------------------------
(* Claims about the middleware groups of one route (SpecRoute) *)

\* C24: the groups of a route run in the order they were attached (the
\* invocations of the group chain go through the groups, and through the
\* functions of a group, in ascending order), and once a middleware of one
\* group has returned a value other than Next, no middleware of a later
\* group has been invoked for that route and request.
C24_GroupsInOrderAndCancelStopsLater ==
  \A k \in Started :
    LET c == Task(k).chains.groups
    IN  /\ \A i \in 1..Len(c.invoked) :
             c.invoked[i].fn = GroupMw(Task(k).route, c.invoked[i].list, c.invoked[i].idx)
        /\ \A i \in 1..Len(c.invoked) : \A j \in (i + 1)..Len(c.invoked) :
             \/ c.invoked[i].list < c.invoked[j].list
             \/ c.invoked[i].list = c.invoked[j].list /\ c.invoked[i].idx < c.invoked[j].idx
        /\ \A i \in 1..Len(c.returned) :
             c.returned[i] # StateNext =>
               \A j \in 1..Len(c.invoked) : c.invoked[j].list <= c.invoked[i].list

----------------------------------------------------------------------------
(* Claims about several entries built through one builder (SpecMulti) *)

\* the tasks of request r whose entry has a pattern that is not a string
RegexTasks(r) ==
  {t \in 1..Len(reqs[r].tasks) : heap[reqs[r].tasks[t].route].path.kind = "regexp"}

\* the last of them in registration order
LastRegexTask(r) == CHOOSE t \in RegexTasks(r) : \A u \in RegexTasks(r) : u <= t

\* what the pattern of route object o, used for the first time, extracts
\* from the path of request r
ExtractedBy(o, r) ==
  Groups(heap[o].path,
         RegExpExec([heap[o].path EXCEPT !.lastIndex = 0], reqs[r].path).result)

\* C25: when one or more regex entries match a request, the parameter store
\* of the request holds what the last matching regex entry, in registration
\* order, extracts; the store does not change afterwards, so this is the
\* mapping every handler invoked for the request observes.
C25_LastMatchingEntryWins ==
  /\ [](\A r \in 1..Len(reqs) :
          RegexTasks(r) # {} =>
            reqs[r].parameters = ExtractedBy(reqs[r].tasks[LastRegexTask(r)].route, r))
  /\ [][\A r \in 1..Len(reqs) : reqs'[r].parameters = reqs[r].parameters]_vars

\* C25 witness: the entries /\/(?<id>[0-9]+)/u and /\/(?<slug>[0-9]+)$/u
\* both match GET /4, both handlers have been invoked, and the store holds
\* {slug: "4"}
C25_Witness ==
  /\ reqs # <<>>
  /\ Len(reqs[1].tasks) = 2
  /\ RegexTasks(1) = {1, 2}
  /\ ExtractedBy(reqs[1].tasks[1].route, 1) = Some(<< <<"id", <<"4">> >> >>)
  /\ reqs[1].parameters = Some(<< <<"slug", <<"4">> >> >>)
  /\ reqs[1].tasks[1].called = <<Handler(1)>>
  /\ reqs[1].tasks[2].called = <<Handler(2)>>

----------------------------------------------------------------------------
(* Claims about the start of the handler (SpecErrors) *)

\* C26: when the handler of a matched route has started for a request, every
\* middleware invocation started for that route in that request, in each of
\* the three phases, has completed: no chain awaits a middleware, and each
\* invocation has returned.
C26_HandlerAfterMiddleware ==
  \A k \in Started :
    Task(k).called # <<>> =>
      \A p \in Phases :
        /\ ~Task(k).chains[p].running
        /\ Len(Task(k).chains[p].returned) = Len(Task(k).chains[p].invoked)

\* C26 witness: the handler has started after a global, a group and a
\* per-route middleware were invoked and returned
C26_Witness ==
  \E k \in Started :
    /\ Task(k).called # <<>>
    /\ \A p \in Phases :
         /\ Task(k).chains[p].invoked # <<>>
         /\ Len(Task(k).chains[p].returned) = Len(Task(k).chains[p].invoked)

\* C27: routes registered one after another through the builder object are
\* distinct registry entries: no later builder call changes the position or
\* the pattern, methods, middleware or handler of a registered entry; the
\* handler invoked for an entry is the one given when it was registered; and
\* a request matched by an entry with a literal pattern is not matched by an
\* entry with another literal pattern.
C27_EntriesAreDistinct ==
  /\ [][\A i \in 1..Len(RegistredRoutes) :
          /\ RegistredRoutes'[i] = RegistredRoutes[i]
          /\ reqs' = reqs => heap'[RegistredRoutes[i]] = heap[RegistredRoutes[i]]]_vars
  /\ [](\A i, j \in 1..Len(RegistredRoutes) :
          i # j => RegistredRoutes[i] # RegistredRoutes[j])
  /\ [](\A k \in Started :
          /\ Task(k).called # <<>> => Task(k).called = <<Handler(Task(k).entry)>>
          /\ \A t \in 1..Len(reqs[k[1]].tasks) :
               LET a == heap[Task(k).route].path
                   b == heap[reqs[k[1]].tasks[t].route].path
               IN  (a.kind = "string" /\ b.kind = "string") => a = b)

\* C27 witness: r.Path("/a").withMethods(GET).handleFunc(h1) and then
\* r.Path("/").withMethods(GET).handleFunc(h2); GET /a has invoked h1, and
\* nothing else was started for it
C27_Witness ==
  /\ RegistredRoutes = <<2, 3>>
  /\ heap[2].path = Str(PathA)
  /\ heap[3].path = Str(<<"/">>)
  /\ heap[3].methods = <<GET, HEAD>>
  /\ reqs # <<>>
  /\ reqs[1].path = PathA
  /\ Len(reqs[1].tasks) = 1
  /\ reqs[1].tasks[1].called = <<Handler(1)>>

----------------------------------------------------------------------------
(* Claims about requests handled one after another (SpecParams) *)

\* C28: two requests with the same method and path, handled against the
\* same registry, match the same entries and get the same parameters,
\* whatever was handled before them.
C28_DispatchDeterministic ==
  \A r1, r2 \in 1..Len(reqs) :
    (reqs[r1].method = reqs[r2].method /\ reqs[r1].path = reqs[r2].path) =>
      /\ EntriesOf(reqs[r1].tasks) = EntriesOf(reqs[r2].tasks)
      /\ reqs[r1].parameters = reqs[r2].parameters

----------------------------------------------------------------------------
(* Claims about the routing options (SpecOptions) *)

\* C29: the routing options are one value: routes(options) makes the given
\* options the configured ones as a whole, routes() leaves the configured
\* options as they are, and so does every other call; the fallback invoked
\* for a request that matches no entry is the notFoundHandler of the
\* configured options (none if they have none).
C29_OptionsReplacedAsAWhole ==
  /\ [][\A options \in AllRoutesArgs :
          routes(options) =>
            RouteOptions' = IF options = Undefined THEN RouteOptions ELSE options[1]]_vars
  /\ [][Len(heap') = Len(heap) => RouteOptions' = RouteOptions]_vars
  /\ [](\A r \in 1..Len(reqs) :
          NoMatch(r) =>
            reqs[r].notFound =
              IF RouteOptions.notFoundHandler = Undefined THEN <<>>
              ELSE <<RouteOptions.notFoundHandler[1]>>)

\* C29 witness: routes was called twice, the configured options are
\* {notFoundHandler: the second handler} without maxRoutes, and that handler
\* has been invoked for a request that matched no entry
C29_Witness ==
  /\ Len(heap) = 2
  /\ RouteOptions = [notFoundHandler |-> Some(OtherFallback), maxRoutes |-> Undefined]
  /\ reqs # <<>>
  /\ NoMatch(1)
  /\ reqs[1].notFound = <<OtherFallback>>

\* C30: listenAndServe called while the registry is empty fails with the
\* HttpError "Register at least one route.", starts no server and handles no
\* request; called with one or more registered routes it starts serving;
\* so the application never serves, and no request is ever handled, with an
\* empty registry.
C30_EmptyRegistryRefused ==
  /\ [][listenAndServe =>
          IF RegistredRoutes = <<>>
          THEN /\ lastError' = "Register at least one route."
               /\ ~serving'
               /\ reqs' = reqs
          ELSE /\ serving'
               /\ lastError' = NoError]_vars
  /\ []((serving \/ reqs # <<>>) => RegistredRoutes # <<>>)

\* C30 witness: listenAndServe has failed on an application on which
\* routes() was called and nothing was registered
C30_Witness ==
  /\ heap # <<>>
  /\ RegistredRoutes = <<>>
  /\ lastError = "Register at least one route."
  /\ ~serving
  /\ reqs = <<>>

====
